---- MODULE Spec2Model ----
(***************************************************************************)
(* Model of mat.RSVD (src/mat/rsvd.go): the randomized singular value      *)
(* decomposition wrapper around the Dense, QR and SVD types of package     *)
(* mat.                                                                    *)
(*                                                                         *)
(* Matrices are abstracted to their shape and the kind of their content;   *)
(* the variable written records how recently each stored field was         *)
(* assigned.  The singular values of the reduced SVD are a non-increasing  *)
(* sequence picked by the collaborator.  A panic is an outcome string      *)
(* "panic_...".                                                            *)
(***************************************************************************)
EXTENDS Integers, Sequences, FiniteSets, TLC

\* ---- bounds ----
MaxDim == 2       \* rows / columns of the input matrix A range over 1..MaxDim
MaxVal == 1       \* singular values range over 0..MaxVal

\* const minRank = 1
minRank == 1

Min(a, b) == IF a < b THEN a ELSE b

VARIABLES rsvd, written, fact, last

vars == <<rsvd, written, fact, last>>

\* ---- Dense (collaborator) ----

\* content of a matrix: none, the caller's own ("old"), or a factor
NoData == "none"
OldData == "old"

\* var d Dense : the empty matrix
EmptyDense == [rows |-> 0, cols |-> 0, data |-> NoData]

\* Dense.IsEmpty
IsEmpty(d) == d.rows = 0 \/ d.cols = 0

\* NewDense(r, c, nil) panics with ErrZeroLength / ErrNegativeDimension
\* unless both dimensions are positive; Dense.ReuseAs likewise.
NewDensePanics(r, c) == r <= 0 \/ c <= 0

\* Dense.Slice(i, k, j, l) of a rows x cols matrix panics with
\* ErrIndexOutOfRange unless 0 <= i < k <= rows and 0 <= j < l <= cols
SlicePanics(rows, cols, i, k, j, l) ==
  i < 0 \/ k <= i \/ rows < k \/ j < 0 \/ l <= j \/ cols < l

\* ---- SVD (collaborator) ----

\* rsvd.svd == nil
NilSVD == [nil |-> TRUE, ok |-> FALSE, r |-> 0, c |-> 0, vals |-> <<>>]

\* &SVD{} : allocated, no factorization stored
ZeroSVD == [nil |-> FALSE, ok |-> FALSE, r |-> 0, c |-> 0, vals |-> <<>>]

\* singular values the collaborator may report for a problem of dimension k
SingVals(k) ==
  { s \in [1..k -> 0..MaxVal] : \A i \in 1..k : \A j \in 1..k : i <= j => s[i] >= s[j] }

\* (*SVD).Factorize(Y, SVDThin) on a yr x yc matrix.  A nil receiver is
\* dereferenced by the first store.  Otherwise the previous factorization is
\* replaced: on success by min(yr, yc) singular triplets, on failure by
\* nothing.
SVD_Factorize(svd, yr, yc, ok, sv) ==
  IF svd.nil
  THEN [out |-> "panic_nil", svd |-> svd, stored |-> FALSE]
  ELSE IF ok
  THEN [out |-> "true", stored |-> TRUE,
        svd |-> [nil |-> FALSE, ok |-> TRUE, r |-> yr, c |-> yc, vals |-> sv]]
  ELSE [out |-> "false", stored |-> TRUE,
        svd |-> [nil |-> FALSE, ok |-> FALSE, r |-> yr, c |-> yc, vals |-> <<>>]]

\* (*SVD).Values(s): slen = 0 stands for a nil slice
SVD_Values(svd, slen) ==
  IF svd.nil THEN [out |-> "panic_nil", ret |-> <<>>]
  ELSE IF ~svd.ok THEN [out |-> "panic_nofact", ret |-> <<>>]
  ELSE IF slen # 0 /\ slen # Len(svd.vals) THEN [out |-> "panic_slicelen", ret |-> <<>>]
  ELSE [out |-> "ok", ret |-> svd.vals]

\* (*SVD).UTo(&Uy) with an empty Uy: Uy becomes r x min(r, c)
SVD_UTo(svd) ==
  IF svd.nil THEN [out |-> "panic_nil", mat |-> EmptyDense]
  ELSE IF ~svd.ok THEN [out |-> "panic_nofact", mat |-> EmptyDense]
  ELSE [out |-> "ok",
        mat |-> [rows |-> svd.r, cols |-> Min(svd.r, svd.c),
                 data |-> "Uy"]]

\* (*SVD).VTo(dst): V is c x min(r, c)
SVD_VTo(svd, dst) ==
  IF svd.nil THEN [out |-> "panic_nil", dst |-> dst]
  ELSE IF ~svd.ok THEN [out |-> "panic_nofact", dst |-> dst]
  ELSE IF ~IsEmpty(dst) /\ (dst.rows # svd.c \/ dst.cols # Min(svd.r, svd.c))
  THEN [out |-> "panic_shape", dst |-> dst]
  ELSE [out |-> "ok",
        dst |-> [rows |-> svd.c, cols |-> Min(svd.r, svd.c),
                 data |-> "V"]]

\* ---- RSVD ----

NilQ == [rows |-> 0, cols |-> 0]

\* var rsvd RSVD
ZeroRSVD == [svd |-> NilSVD, rank |-> 0, q |-> NilQ, m |-> 0]

\* RSVD{svd: &SVD{}}
AllocRSVD == [svd |-> ZeroSVD, rank |-> 0, q |-> NilQ, m |-> 0]

\* makeRandomMatrix(rows, columns): NewDense(rows, columns, data) with
\* len(data) = rows*columns
makeRandomMatrix(rows, columns) ==
  IF NewDensePanics(rows, columns) THEN "panic_zerolen" ELSE "ok"

\* plausible slip: m and Q are stored as soon as m is known, before QR
FactorizeStoreEarly(r, am, an, rank, ok, sv) ==
  IF rank > am
  THEN [out |-> "panic_shape", wrote |-> {"m", "q"},
        rsvd |-> [r EXCEPT !.m = am, !.q = [rows |-> am, cols |-> rank]]]
  ELSE LET Q == [rows |-> am, cols |-> rank]
           f == SVD_Factorize(r.svd, rank, an, ok, sv)
       IN [out |-> f.out,
           rsvd |-> [r EXCEPT !.m = am, !.q = Q, !.svd = f.svd],
           wrote |-> IF f.stored THEN {"m", "q", "svd"} ELSE {"m", "q"}]

\* Factorize after its rank check (rank >= minRank): sketch, QR, truncation,
\* projection, the two stores and the reduced SVD.
FactorizeSteps(r, am, an, rank, ok, sv) ==
  \* P := makeRandomMatrix(n, rank); Z := NewDense(m, rank, nil)
  IF makeRandomMatrix(an, rank) # "ok" \/ NewDensePanics(am, rank)
  THEN [out |-> "panic_zerolen", rsvd |-> r, wrote |-> {}]
  \* QR of the m x rank sketch Z; QFull is m x m;
  \* Q := QFull.Slice(0, m, 0, rank)
  ELSE IF SlicePanics(am, am, 0, am, 0, rank)
  THEN [out |-> "panic_shape", rsvd |-> r, wrote |-> {}]
  \* Y := NewDense(rank, n, nil); rsvd.m = m; rsvd.q = Q;
  \* return rsvd.svd.Factorize(Y, SVDThin)
  ELSE LET Q == [rows |-> am, cols |-> rank]
           f == SVD_Factorize(r.svd, rank, an, ok, sv)
       IN [out |-> f.out,
           rsvd |-> [r EXCEPT !.m = am, !.q = Q, !.svd = f.svd],
           wrote |-> IF f.stored THEN {"m", "q", "svd"} ELSE {"m", "q"}]

\* plausible slip: the previous state is cleared before rank is validated
FactorizeCheckLate(r, am, an, rank, ok, sv) ==
  IF rank < minRank
  THEN [out |-> "panic_rank", wrote |-> {"m", "q", "svd"},
        rsvd |-> [r EXCEPT !.m = am, !.q = NilQ,
                           !.svd = IF r.svd.nil THEN r.svd ELSE ZeroSVD]]
  ELSE FactorizeSteps(r, am, an, rank, ok, sv)

\* (*RSVD).Factorize(A, rank) for an am x an matrix A; ok and sv are what the
\* reduced SVD reports for Y.
Factorize(r, am, an, rank, ok, sv) ==
  IF rank < minRank
  THEN [out |-> "panic_rank", rsvd |-> r, wrote |-> {}]
  ELSE FactorizeSteps(r, am, an, rank, ok, sv)

\* plausible slip: the result is returned whether or not a factorization is held
ValuesUnchecked(r, slen) ==
  IF r.svd.nil \/ ~r.svd.ok
  THEN [out |-> "ok", ret |-> [i \in 1..r.rank |-> 0], rsvd |-> r]
  ELSE LET v == SVD_Values(r.svd, slen)
       IN [out |-> v.out, ret |-> v.ret, rsvd |-> r]

\* (*RSVD).Values(s)
Values(r, slen) ==
  LET v == SVD_Values(r.svd, slen)
  IN [out |-> v.out, ret |-> v.ret, rsvd |-> r]

\* plausible slip: dst is reset for reuse before anything is validated
UToResetFirst(r, dst) ==
  [out |-> IF r.svd.nil THEN "panic_nil"
           ELSE IF ~r.svd.ok THEN "panic_nofact" ELSE "panic_zerolen",
   dst |-> EmptyDense, rsvd |-> r]

\* plausible slip: the product is cached in the receiver (q := U's basis)
UToCaching(r, dst) ==
  LET u == SVD_UTo(r.svd)
  IN IF u.out # "ok"
     THEN [out |-> u.out, dst |-> dst, rsvd |-> r]
     ELSE [out |-> "panic_zerolen", dst |-> dst,
           rsvd |-> [r EXCEPT !.q = [rows |-> r.m, cols |-> u.mat.cols]]]

\* (*RSVD).UTo(dst)
UTo(r, dst) ==
  LET u == SVD_UTo(r.svd)      \* rsvd.svd.UTo(&Uy)
      Uy == u.mat
      U == [rows |-> r.m, cols |-> r.rank, data |-> "U"]
  IN IF u.out # "ok"
     THEN [out |-> u.out, dst |-> dst, rsvd |-> r]
     \* U := NewDense(rsvd.m, rsvd.rank, nil)
     ELSE IF NewDensePanics(r.m, r.rank)
     THEN [out |-> "panic_zerolen", dst |-> dst, rsvd |-> r]
     \* U.Mul(rsvd.q, &Uy): inner dimensions agree and the non-empty
     \* receiver has the shape of the product
     ELSE IF r.q.cols # Uy.rows \/ r.q.rows # U.rows \/ Uy.cols # U.cols
     THEN [out |-> "panic_shape", dst |-> dst, rsvd |-> r]
     ELSE IF IsEmpty(dst)
     THEN [out |-> "ok", dst |-> U, rsvd |-> r]
     ELSE IF r.m # dst.rows \/ r.rank # dst.cols
     THEN [out |-> "panic_shape", dst |-> dst, rsvd |-> r]
     ELSE [out |-> "ok", dst |-> U, rsvd |-> r]

\* (*RSVD).VTo(dst)
VTo(r, dst) ==
  LET v == SVD_VTo(r.svd, dst)
  IN [out |-> v.out, dst |-> v.dst, rsvd |-> r]

\* ---- the caller ----

Dims == 1..MaxDim
Ranks == (-1)..(MaxDim + 1)
\* lengths of the slice passed to Values; 0 is a nil slice
Slens == 0..MaxDim
\* destinations a caller may pass: empty, or any small shape with content
Dsts == {EmptyDense} \cup
        { [rows |-> i, cols |-> j, data |-> OldData] : i \in Dims, j \in Dims }

\* written[f] for a stored field f: 0 never assigned, 1 assigned by the most
\* recent Factorize call that assigned anything, 2 assigned by an earlier one
Aged(wrote) ==
  [f \in {"m", "q", "svd"} |->
     IF f \in wrote THEN 1
     ELSE IF wrote # {} /\ written[f] # 0 THEN 2
     ELSE written[f]]

\* the reduced SVD is called: rank is valid and fits the rows of A
Reached(am, rank) == rank >= minRank /\ rank <= am

\* what the receiver holds: "zero" (the zero value), "nilsvd" (svd nil, m and
\* q stored), "alloc" (svd allocated, never factorized), "failed" (the reduced
\* SVD reported failure), "ok" (a successful factorization)
Held(r) ==
  IF r.svd.nil THEN (IF r.q = NilQ /\ r.m = 0 /\ r.rank = 0 THEN "zero" ELSE "nilsvd")
  ELSE IF r.svd.ok THEN "ok"
  ELSE IF r.svd.r = 0 THEN "alloc" ELSE "failed"

NoCall == [op |-> "none", am |-> 0, an |-> 0, rank |-> 0, svdOk |-> FALSE,
           slen |-> 0, dstIn |-> EmptyDense,
           out |-> "none", ret |-> <<>>, dstOut |-> EmptyDense,
           wrote |-> {}, rep |-> FALSE, held |-> "zero"]

Accessors == {"Values", "UTo", "VTo"}

\* this accessor call repeats the previous call
Repeats(op, slen, dstIn) ==
  last.op = op /\ last.slen = slen /\ last.dstIn = dstIn

NoFact == [rank |-> 0, m |-> 0, n |-> 0]

\* A caller outside the package holds the zero value; code inside the package
\* can also build the value with its svd field allocated.
Init ==
  /\ rsvd \in {ZeroRSVD, AllocRSVD}
  /\ written = [m |-> 0, q |-> 0, svd |-> 0]
  /\ fact = NoFact
  /\ last = [NoCall EXCEPT !.held = Held(rsvd)]

DoFactorize ==
  \E am \in Dims, an \in Dims, rank \in Ranks :
    \E ok \in (IF Reached(am, rank) /\ ~rsvd.svd.nil THEN BOOLEAN ELSE {FALSE}) :
      \E sv \in (IF ok THEN SingVals(Min(rank, an)) ELSE {<<>>}) :
        LET res == Factorize(rsvd, am, an, rank, ok, sv)
        IN /\ rsvd' = res.rsvd
           /\ written' = Aged(res.wrote)
           /\ fact' = IF res.out \in {"true", "false"}
                      THEN [rank |-> rank, m |-> am, n |-> an] ELSE fact
           /\ last' = [NoCall EXCEPT !.op = "Factorize", !.am = am, !.an = an,
                                     !.rank = rank, !.svdOk = ok, !.out = res.out,
                                     !.wrote = res.wrote, !.held = Held(rsvd)]

DoValues ==
  \E slen \in Slens :
    LET res == Values(rsvd, slen)
    IN /\ rsvd' = res.rsvd
       /\ last' = [NoCall EXCEPT !.op = "Values", !.slen = slen, !.out = res.out,
                                 !.ret = res.ret, !.held = Held(rsvd),
                                 !.rep = Repeats("Values", slen, EmptyDense)]
       /\ UNCHANGED <<written, fact>>

DoUTo ==
  \E dst \in Dsts :
    LET res == UTo(rsvd, dst)
    IN /\ rsvd' = res.rsvd
       /\ last' = [NoCall EXCEPT !.op = "UTo", !.dstIn = dst, !.out = res.out,
                                 !.dstOut = res.dst, !.held = Held(rsvd),
                                 !.rep = Repeats("UTo", 0, dst)]
       /\ UNCHANGED <<written, fact>>

DoVTo ==
  \E dst \in Dsts :
    LET res == VTo(rsvd, dst)
    IN /\ rsvd' = res.rsvd
       /\ last' = [NoCall EXCEPT !.op = "VTo", !.dstIn = dst, !.out = res.out,
                                 !.dstOut = res.dst, !.held = Held(rsvd),
                                 !.rep = Repeats("VTo", 0, dst)]
       /\ UNCHANGED <<written, fact>>

Next == DoFactorize \/ DoValues \/ DoUTo \/ DoVTo

Spec == Init /\ [][Next]_vars

\* ---- properties ----

Panics == {"panic_rank", "panic_zerolen", "panic_shape", "panic_nil",
           "panic_nofact", "panic_slicelen"}

\* the receiver holds a successful factorization
Successful(r) == Held(r) = "ok"

NonIncreasing(s) == \A i \in 1..Len(s) : \A j \in 1..Len(s) : i <= j => s[i] >= s[j]

\* C1: Factorize with rank <= 0 panics before writing any field of the
\* receiver, so every accessor answers afterwards as it did before the call.
C1_LowRankAbortsBeforeAnyWrite ==
  [][(last'.op = "Factorize" /\ last'.rank <= 0) =>
       /\ last'.out = "panic_rank"
       /\ last'.wrote = {}
       /\ rsvd' = rsvd
       /\ \A s \in Slens : Values(rsvd', s) = Values(rsvd, s)
       /\ \A d \in Dsts : UTo(rsvd', d) = UTo(rsvd, d) /\ VTo(rsvd', d) = VTo(rsvd, d)]_vars

\* a successful factorization survived a Factorize call with rank <= 0
C1_Witness ==
  /\ last.op = "Factorize" /\ last.rank <= 0 /\ last.out = "panic_rank"
  /\ last.held = "ok" /\ Successful(rsvd)

\* C2: from the zero value, Factorize with 1 <= rank <= min(m, n) returns
\* (no panic), leaves the object Factorized, and returns true exactly when
\* the reduced SVD reported success.
C2_ZeroValueFactorizeReturns ==
  (last.op = "Factorize" /\ last.held = "zero"
     /\ 1 <= last.rank /\ last.rank <= Min(last.am, last.an)) =>
     /\ last.out \in {"true", "false"}
     /\ (last.out = "true") <=> last.svdOk
     /\ fact = [rank |-> last.rank, m |-> last.am, n |-> last.an]

\* C3: after a Factorize that returned true, UTo on an empty destination
\* returns and leaves the destination m x rank, rank being the argument of
\* that Factorize call.
C3_UToResizesEmptyDst ==
  (last.op = "UTo" /\ last.held = "ok" /\ IsEmpty(last.dstIn)) =>
     /\ last.out = "ok"
     /\ last.dstOut.rows = fact.m
     /\ last.dstOut.cols = fact.rank

\* C4: for rank >= 1 Factorize never panics because of the size of rank.
C4_NoAbortFromRankSize ==
  (last.op = "Factorize" /\ last.rank >= 1) =>
     last.out \notin {"panic_shape", "panic_zerolen"}

\* C5: an accessor called on a receiver without a successful factorization
\* (never factorized, or last Factorize returned false) panics, returns no
\* data and leaves its destination as it was.
C5_AccessorsPanicWithoutFactorization ==
  (last.op \in Accessors /\ last.held # "ok") =>
     /\ last.out \in Panics
     /\ last.ret = <<>>
     /\ last.dstOut = last.dstIn

\* Values was called after a Factorize that returned false
C5_Witness ==
  /\ last.op = "Values" /\ last.out = "panic_nofact"
  /\ last.held = "failed" /\ fact # NoFact

\* C6: UTo on a non-empty destination that is not m x rank panics and leaves
\* the destination's shape and content as they were.
C6_UToWrongShapeLeavesDst ==
  (last.op = "UTo" /\ ~IsEmpty(last.dstIn)
     /\ (last.dstIn.rows # fact.m \/ last.dstIn.cols # fact.rank)) =>
     /\ last.out \in Panics
     /\ last.dstOut = last.dstIn

\* UTo was called on a successful factorization with a wrong-shaped
\* destination holding content
C6_Witness ==
  /\ last.op = "UTo" /\ last.held = "ok"
  /\ ~IsEmpty(last.dstIn) /\ last.dstIn.data = OldData
  /\ (last.dstIn.rows # fact.m \/ last.dstIn.cols # fact.rank)
  /\ last.out \in Panics

\* C7: after a Factorize(A, rank) that returned true, Values(nil) returns
\* exactly rank non-increasing values, and Values(s) with a non-empty s whose
\* length is not rank panics.
C7_ValuesHasRankEntries ==
  (last.op = "Values" /\ last.held = "ok") =>
     /\ last.slen = 0 =>
          last.out = "ok" /\ Len(last.ret) = fact.rank /\ NonIncreasing(last.ret)
     /\ (last.slen # 0 /\ last.slen # fact.rank) => last.out \in Panics

\* C8: after a Factorize(A, rank) of an m x n matrix that returned true, VTo
\* leaves an empty destination n x rank and panics on a non-empty
\* destination that is not n x rank.
C8_VToIsNByRank ==
  (last.op = "VTo" /\ last.held = "ok") =>
     /\ IsEmpty(last.dstIn) =>
          last.out = "ok" /\ last.dstOut.rows = fact.n /\ last.dstOut.cols = fact.rank
     /\ (~IsEmpty(last.dstIn)
          /\ (last.dstIn.rows # fact.n \/ last.dstIn.cols # fact.rank)) =>
          last.out \in Panics

\* C9: the stored m and Q are written by the same Factorize call, and a
\* stored reduced-SVD state is written by that call too: no aborted call
\* leaves a new m and Q next to an older reduced-SVD state.
C9_StateFromOneCall ==
  /\ written.m = written.q
  /\ ~rsvd.svd.nil => written.svd = written.q
  /\ Successful(rsvd) => rsvd.m = rsvd.q.rows /\ rsvd.svd.r = rsvd.q.cols

\* a Factorize call aborted (rank > m) after an earlier one had succeeded
C9_Witness ==
  /\ last.op = "Factorize" /\ last.out = "panic_shape" /\ last.held = "ok"
  /\ Successful(rsvd) /\ written.q = 1

\* C10: an accessor leaves every stored field as it was, and repeating an
\* accessor call with the same arguments gives the same result.
C10_AccessorsReadOnly ==
  [][(last'.op \in Accessors) =>
       /\ rsvd' = rsvd
       /\ last'.rep =>
            /\ last'.out = last.out
            /\ last'.ret = last.ret
            /\ last'.dstOut = last.dstOut]_vars

\* Values was repeated on a successful factorization
C10_Witness ==
  /\ last.op = "Values" /\ last.rep /\ last.out = "ok"
  /\ last.held = "ok" /\ Len(last.ret) > 0
====
